---- MODULE Spec2Model ----
(***************************************************************************)
(* Four-way intersection simulation (src/src/app.py; src/new.py is the     *)
(* same logic with other geometry numbers).  The model keeps the           *)
(* simulation kernel of main()'s loop: the per-road queues, the green      *)
(* road, the two wall-clock timers and the five steps of one loop          *)
(* iteration in the order the loop body runs them:                         *)
(*   update_and_draw_vehicles  ->  phase check  ->  timed spawn  ->        *)
(*   event handling  ->  clock.tick and the `while running` test.          *)
(* Drawing, images and fonts are left out: they write no simulation state. *)
(*                                                                         *)
(* Time.  time.time() is modelled with a resolution of one second.  The    *)
(* code only ever compares `time.time() - timer` with a threshold, so the  *)
(* model stores the two differences (since_switch, since_spawn), saturated *)
(* at the first value that meets the threshold, instead of the absolute    *)
(* readings.  Time passes in clock.tick(30) at the end of an iteration, by *)
(* any amount (an amount beyond GREEN_LIGHT_DURATION saturates both        *)
(* timers like GREEN_LIGHT_DURATION itself); all readings inside one       *)
(* iteration agree.                                                        *)
(*                                                                         *)
(* Specifications.  Spec is main() as written, cut off once MaxSpawned     *)
(* vehicles were constructed.  SpecTimedOnly is Spec without KEYDOWN       *)
(* events of the arrow keys.  SpecAnyRoad adds a call of spawn_vehicle     *)
(* with a road that is no key of traffic_queues.  SpecLive is the loop     *)
(* running for ever, with object identities reused and with the option     *)
(* that the spawning ends, for the properties of infinite executions.      *)
(***************************************************************************)
EXTENDS Integers, Sequences, FiniteSets, TLC

(***************************************************************************)
(* Bounds.  The first four are the program's configuration numbers scaled  *)
(* down so that a crossing takes a handful of ticks and the vehicle        *)
(* ceiling is reachable (app.py sets WIDTH, HEIGHT = 900, 600,             *)
(* ROAD_WIDTH = 100, MAX_VEHICLES = 10).  The code uses them only through  *)
(* the expressions kept below (WIDTH \div 2, ROAD_WIDTH \div 4,            *)
(* total < MAX_VEHICLES, ...).                                             *)
(***************************************************************************)
WIDTH == 8
HEIGHT == 8
ROAD_WIDTH == 4
MAX_VEHICLES == 2
\* total number of vehicles ever constructed in one run
MaxSpawned == 3
\* largest number of events pygame.event.get() returns in one iteration
MaxEvents == 1
\* vehicles queued at a time in the executions of SpecLive
LiveMaxQueued == 2

\* seconds (app.py line 28)
GREEN_LIGHT_DURATION == 3

\* list(traffic_queues.keys()): dict insertion order
roads == <<"North", "South", "East", "West">>

RoadSet == {roads[i] : i \in 1..Len(roads)}

\* position of a road in the fixed order
RoadIndex(r) == CHOOSE i \in 1..Len(roads) : roads[i] = r

Min(a, b) == IF a < b THEN a ELSE b

\* the values at which the two timers saturate: the first whole second that
\* meets `>= GREEN_LIGHT_DURATION`, and the first that meets `>= 0.5`
SwitchDue == GREEN_LIGHT_DURATION
SpawnDue == 1

VARIABLES
    traffic_queues,      \* road -> sequence of vehicle records (arrival order)
    current_green_road,  \* main()'s local
    since_switch,        \* time.time() - time_last_switch, saturated at SwitchDue
    since_spawn,         \* time.time() - spawn_timer, saturated at SpawnDue
    running,             \* main()'s local
    pc,                  \* the step of the loop body that runs next
    next_id,             \* identity of the next Vehicle object constructed
    \* history variables (written, never read, by the actions); the three about
    \* one iteration are cleared by the step after the one that needs them
    stages_done,         \* steps already run in the current iteration
    update_green,        \* argument of the latest update_and_draw_vehicles call
    move_log,            \* vehicles as returned by each move() call of that step
    removed_ids,         \* identities removed from a queue so far
    switched,            \* did the latest phase check switch
    spawning             \* are spawn requests still made: TRUE throughout main(),
                         \* cleared only in the executions of SpecLive in which
                         \* the spawning ends

vars == <<traffic_queues, current_green_road, since_switch, since_spawn, running,
          pc, next_id, stages_done, update_green, move_log, removed_ids,
          switched, spawning>>

----------------------------------------------------------------------------
(* class Vehicle *)

\* Vehicle.__init__; id is the object's identity (the n-th Vehicle constructed),
\* green_ticks a history field
\* counting the update steps the vehicle spent queued on the green road, ticks
\* a history field counting the update steps an emergency vehicle spent queued
Vehicle(id, x, y, road, is_emergency) ==
    [id |-> id, x |-> x, y |-> y, road |-> road, is_emergency |-> is_emergency,
     flash_timer |-> 1, green_ticks |-> 0, ticks |-> 0]

\* variant of Move without the light test (C3 must tell it from Move)
MoveIgnoringLight(v, green) ==
    LET speed == IF v.is_emergency THEN 4 ELSE 2 IN
    IF v.road = "North" THEN [v EXCEPT !.y = @ + speed]
    ELSE IF v.road = "South" THEN [v EXCEPT !.y = @ - speed]
    ELSE IF v.road = "East" THEN [v EXCEPT !.x = @ - speed]
    ELSE [v EXCEPT !.x = @ + speed]

\* variant of Move in which emergency vehicles wait at red (C4)
MoveEmergencyWaits(v, green) ==
    LET speed == IF v.is_emergency THEN 4 ELSE 2 IN
    IF v.road = green
    THEN IF v.road = "North" THEN [v EXCEPT !.y = @ + speed]
         ELSE IF v.road = "South" THEN [v EXCEPT !.y = @ - speed]
         ELSE IF v.road = "East" THEN [v EXCEPT !.x = @ - speed]
         ELSE [v EXCEPT !.x = @ + speed]
    ELSE v

\* Vehicle.move(current_green_road)
Move(v, green) ==
    LET speed == IF v.is_emergency THEN 4 ELSE 2
        moved == IF v.road = "North" THEN [v EXCEPT !.y = @ + speed]
                 ELSE IF v.road = "South" THEN [v EXCEPT !.y = @ - speed]
                 ELSE IF v.road = "East" THEN [v EXCEPT !.x = @ - speed]
                 ELSE IF v.road = "West" THEN [v EXCEPT !.x = @ + speed]
                 ELSE v
    IN  IF v.road = green \/ v.is_emergency
        THEN IF v.is_emergency
             THEN [moved EXCEPT !.flash_timer = @ + 1]
             ELSE moved
        ELSE v

----------------------------------------------------------------------------
(* spawn_vehicle *)

\* the entry coordinate spawn_vehicle gives a road
EntryPoint(road) ==
    IF road = "North" THEN [x |-> WIDTH \div 2 - ROAD_WIDTH \div 4, y |-> 0]
    ELSE IF road = "South" THEN [x |-> WIDTH \div 2 + ROAD_WIDTH \div 4, y |-> HEIGHT]
    ELSE IF road = "East" THEN [x |-> WIDTH, y |-> HEIGHT \div 2 + ROAD_WIDTH \div 4]
    ELSE [x |-> 0, y |-> HEIGHT \div 2 - ROAD_WIDTH \div 4]

\* variant of spawn_vehicle that constructs every vehicle as an ordinary one (C11)
spawn_vehicle_DropsFlag(queues, road, is_emergency, id) ==
    LET p == EntryPoint(road) IN
    [queues EXCEPT ![road] = Append(@, Vehicle(id, p.x, p.y, road, FALSE))]

\* variant of spawn_vehicle that queues every vehicle on the first road (C12)
spawn_vehicle_FirstQueue(queues, road, is_emergency, id) ==
    LET p == EntryPoint(road) IN
    [queues EXCEPT ![roads[1]] = Append(@, Vehicle(id, p.x, p.y, road, is_emergency))]

\* variant of spawn_vehicle that inserts at the head of the queue (C18)
spawn_vehicle_AtHead(queues, road, is_emergency, id) ==
    LET p == EntryPoint(road) IN
    [queues EXCEPT ![road] = <<Vehicle(id, p.x, p.y, road, is_emergency)>> \o @]

\* traffic_queues after spawn_vehicle(road, is_emergency) constructs object id
spawn_vehicle(queues, road, is_emergency, id) ==
    LET p == EntryPoint(road) IN
    [queues EXCEPT ![road] = Append(@, Vehicle(id, p.x, p.y, road, is_emergency))]

\* variant of total_vehicle_count that leaves the last road out (C13)
total_vehicle_count_SkipsLast(queues) ==
    Len(queues["North"]) + Len(queues["South"]) + Len(queues["East"])

\* sum(len(vehicles) for vehicles in traffic_queues.values())
total_vehicle_count(queues) ==
    Len(queues["North"]) + Len(queues["South"]) + Len(queues["East"]) + Len(queues["West"])

----------------------------------------------------------------------------
(* update_traffic_lights *)

\* any(vehicle.is_emergency for vehicle in vehicles)
HasEmergency(vehicles) == \E k \in 1..Len(vehicles) : vehicles[k].is_emergency

\* the first loop: the first road, in dict order, whose queue holds an
\* emergency vehicle; "None" when the loop falls through
RECURSIVE ScanEmergency(_, _)
ScanEmergency(queues, i) ==
    IF i > Len(roads) THEN "None"
    ELSE IF HasEmergency(queues[roads[i]]) THEN roads[i]
    ELSE ScanEmergency(queues, i + 1)

\* list.insert for a stable descending sort: r goes behind every element
\* whose key is >= its own
RECURSIVE InsertDesc(_, _, _)
InsertDesc(sorted, r, key) ==
    IF sorted = <<>> THEN <<r>>
    ELSE IF key[sorted[1]] >= key[r]
         THEN <<sorted[1]>> \o InsertDesc(Tail(sorted), r, key)
         ELSE <<r>> \o sorted

RECURSIVE SortedDescFrom(_, _, _)
SortedDescFrom(seq, i, key) ==
    IF i = 0 THEN <<>>
    ELSE InsertDesc(SortedDescFrom(seq, i - 1, key), seq[i], key)

\* variant of the sort (C2): reversed(sorted(seq, key)), an ascending sort
\* turned round, which turns round the order of equal keys too
RECURSIVE InsertDescUnstable(_, _, _)
InsertDescUnstable(sorted, r, key) ==
    IF sorted = <<>> THEN <<r>>
    ELSE IF key[sorted[1]] > key[r]
         THEN <<sorted[1]>> \o InsertDescUnstable(Tail(sorted), r, key)
         ELSE <<r>> \o sorted

RECURSIVE SortedDescUnstableFrom(_, _, _)
SortedDescUnstableFrom(seq, i, key) ==
    IF i = 0 THEN <<>>
    ELSE InsertDescUnstable(SortedDescUnstableFrom(seq, i - 1, key), seq[i], key)

SortedReverseUnstable(seq, key) == SortedDescUnstableFrom(seq, Len(seq), key)

\* sorted(seq, key=key.get, reverse=True): descending, equal keys keep
\* their original order (Python's sort is stable, also with reverse=True)
SortedReverse(seq, key) == SortedDescFrom(seq, Len(seq), key)

\* variant of update_traffic_lights that gives the last emergency road (C1)
update_traffic_lights_ScanBackwards(queues) ==
    LET last == CHOOSE r \in RoadSet :
                    /\ HasEmergency(queues[r])
                    /\ \A s \in RoadSet : HasEmergency(queues[s]) => RoadIndex(s) <= RoadIndex(r)
        road_vehicle_counts == [r \in RoadSet |-> Len(queues[r])]
    IN  IF \E r \in RoadSet : HasEmergency(queues[r]) THEN last
        ELSE SortedReverse(roads, road_vehicle_counts)[1]

\* variant of update_traffic_lights without the congestion fallback (C9)
update_traffic_lights_NoFallback(queues) == ScanEmergency(queues, 1)

\* variant of update_traffic_lights that gives the road with the fewest
\* vehicles (C17)
update_traffic_lights_FewestFirst(queues) ==
    LET emergency_road == ScanEmergency(queues, 1)
        road_vehicle_counts == [r \in RoadSet |-> Len(queues[r])]
        sorted_roads == SortedReverse(roads, road_vehicle_counts)
    IN  IF emergency_road # "None" THEN emergency_road ELSE sorted_roads[Len(sorted_roads)]

update_traffic_lights(queues) ==
    LET emergency_road == ScanEmergency(queues, 1)
        road_vehicle_counts == [r \in RoadSet |-> Len(queues[r])]
        sorted_roads == SortedReverse(roads, road_vehicle_counts)
    IN  IF emergency_road # "None" THEN emergency_road ELSE sorted_roads[1]

----------------------------------------------------------------------------
(* update_and_draw_vehicles *)

\* variant of Crossed that counts the threshold itself as crossed (C5)
CrossedInclusive(road, v) ==
    \/ road = "North" /\ v.y >= HEIGHT \div 2
    \/ road = "South" /\ v.y <= HEIGHT \div 2
    \/ road = "East" /\ v.x <= WIDTH \div 2
    \/ road = "West" /\ v.x >= WIDTH \div 2

\* the removal condition, on the dict key `road` and the moved vehicle
Crossed(road, v) ==
    \/ road = "North" /\ v.y > HEIGHT \div 2
    \/ road = "South" /\ v.y < HEIGHT \div 2
    \/ road = "East" /\ v.x < WIDTH \div 2
    \/ road = "West" /\ v.x > WIDTH \div 2

\* list.remove(vehicle) on a list of object references: drops the first
\* reference to the object (Vehicle defines no __eq__, so equality is identity)
ListRemove(live, id) ==
    IF \E k \in 1..Len(live) : live[k] = id
    THEN LET k == CHOOSE j \in 1..Len(live) :
                      live[j] = id /\ \A h \in 1..(j - 1) : live[h] # id
         IN  SubSeq(live, 1, k - 1) \o SubSeq(live, k + 1, Len(live))
    ELSE live

\* variant of IterSource: `for vehicle in vehicles`, without the copy (C10)
IterSourceLive(live, snapshot) == live

\* the sequence the inner for loop iterates: `vehicles[:]`, the copy taken
\* before the loop, not the list the body removes from
IterSource(live, snapshot) == snapshot

\* the inner for loop from iterator position i on.  st.objs are the Vehicle
\* objects by identity, st.live the list `vehicles` (references), st.log the
\* vehicles as each move() call left them
RECURSIVE IterateQueue(_, _, _, _, _)
IterateQueue(road, st, snapshot, i, green) ==
    LET src == IterSource(st.live, snapshot) IN
    IF i > Len(src) THEN st
    ELSE LET id == src[i]
             m == Move(st.objs[id], green)
             v == [m EXCEPT !.green_ticks = @ + (IF road = green THEN 1 ELSE 0),
                            !.ticks = @ + (IF m.is_emergency THEN 1 ELSE 0)]
             live1 == IF Crossed(road, v) THEN ListRemove(st.live, id) ELSE st.live
         IN  IterateQueue(road,
                          [objs |-> [st.objs EXCEPT ![id] = v],
                           live |-> live1,
                           log |-> Append(st.log, v)],
                          snapshot, i + 1, green)

\* one pass of the outer loop: the queue of `road` after the inner loop, and
\* the log of its move() calls
UpdateRoad(road, queue, green) ==
    LET ids == [k \in 1..Len(queue) |-> queue[k].id]
        objs == [id \in {ids[k] : k \in 1..Len(ids)} |->
                    queue[CHOOSE k \in 1..Len(queue) : queue[k].id = id]]
        st == IterateQueue(road, [objs |-> objs, live |-> ids, log |-> <<>>], ids, 1, green)
    IN  [queue |-> [k \in 1..Len(st.live) |-> st.objs[st.live[k]]], log |-> st.log]

\* identities of the vehicles in the four queues
QueueIds(queues) ==
    UNION {{queues[r][k].id : k \in 1..Len(queues[r])} : r \in RoadSet}

----------------------------------------------------------------------------
(* main: the loop body, one action per step *)

\* variant of StageOrder with the phase check ahead of the update (C7)
StageOrderPhaseFirst == <<"phase", "update", "spawn", "events", "tick">>

\* the order of the steps in the body of `while running`
StageOrder == <<"update", "phase", "spawn", "events", "tick">>

StageIndex(s) == CHOOSE i \in 1..Len(StageOrder) : StageOrder[i] = s

LastStage(s) == StageIndex(s) = Len(StageOrder)

\* control after step s: the next step, or the loop test after the last one
EndStage(s, still_running) ==
    /\ pc' = IF LastStage(s)
             THEN (IF still_running THEN StageOrder[1] ELSE "done")
             ELSE StageOrder[StageIndex(s) + 1]
    /\ stages_done' = IF LastStage(s) THEN <<>> ELSE Append(stages_done, s)

Init ==
    /\ traffic_queues = [r \in RoadSet |-> <<>>]
    /\ current_green_road \in RoadSet
    /\ since_switch = 0
    /\ since_spawn = 0
    /\ running = TRUE
    /\ pc = StageOrder[1]
    /\ next_id = 1
    /\ stages_done = <<>>
    /\ update_green = "None"
    /\ move_log = <<>>
    /\ removed_ids = {}
    /\ switched = FALSE
    /\ spawning = TRUE

\* update_and_draw_vehicles(current_green_road): the outer loop over the four
\* roads; the passes touch disjoint queues
UpdateVehicles ==
    /\ pc = "update"
    /\ LET res == [r \in RoadSet |-> UpdateRoad(r, traffic_queues[r], current_green_road)]
           after == [r \in RoadSet |-> res[r].queue]
       IN  /\ traffic_queues' = after
           /\ move_log' = res[roads[1]].log \o res[roads[2]].log
                          \o res[roads[3]].log \o res[roads[4]].log
           /\ removed_ids' = removed_ids \cup (QueueIds(traffic_queues) \ QueueIds(after))
    /\ update_green' = current_green_road
    /\ EndStage("update", running)
    /\ UNCHANGED spawning
    /\ UNCHANGED <<current_green_road, since_switch, since_spawn, running, next_id,
                   switched>>

\* variant of PhaseDue without the timer (C8)
PhaseDueAlways(elapsed) == TRUE

\* variant of PhaseDue with the comparison turned round (C16)
PhaseDueNever(elapsed) == elapsed < 0

\* time.time() - time_last_switch >= GREEN_LIGHT_DURATION
PhaseDue(elapsed) == elapsed >= GREEN_LIGHT_DURATION

\* the phase check of the loop body
PhaseCheck ==
    /\ pc = "phase"
    /\ IF PhaseDue(since_switch)
       THEN /\ since_switch' = 0
            /\ current_green_road' = update_traffic_lights(traffic_queues)
            /\ switched' = TRUE
       ELSE /\ switched' = FALSE
            /\ UNCHANGED <<since_switch, current_green_road>>
    /\ move_log' = <<>>
    /\ EndStage("phase", running)
    /\ UNCHANGED spawning
    /\ UNCHANGED <<traffic_queues, since_spawn, running, next_id, update_green,
                   removed_ids>>

\* variant of SpawnAllowed with <= for < (C19)
SpawnAllowedOffByOne(elapsed, queues) ==
    2 * elapsed >= 1 /\ total_vehicle_count(queues) <= MAX_VEHICLES

\* time.time() - spawn_timer >= 0.5 and total_vehicle_count() < MAX_VEHICLES
SpawnAllowed(elapsed, queues) ==
    2 * elapsed >= 1 /\ total_vehicle_count(queues) < MAX_VEHICLES

\* the timed random spawn: random.choice(roads), random.random() < 0.1
TimedSpawn ==
    /\ pc = "spawn"
    /\ IF SpawnAllowed(since_spawn, traffic_queues)
       THEN /\ next_id <= MaxSpawned
            /\ \E road \in RoadSet, is_emergency \in BOOLEAN :
                   traffic_queues' = spawn_vehicle(traffic_queues, road, is_emergency, next_id)
            /\ next_id' = next_id + 1
            /\ since_spawn' = 0
       ELSE UNCHANGED <<traffic_queues, next_id, since_spawn>>
    /\ update_green' = "None"
    /\ switched' = FALSE
    /\ EndStage("spawn", running)
    /\ UNCHANGED spawning
    /\ UNCHANGED <<current_green_road, since_switch, running, move_log, removed_ids>>

EventKinds == {"QUIT", "K_UP", "K_DOWN", "K_LEFT", "K_RIGHT"}

EventLists == UNION {[1..n -> EventKinds] : n \in 0..MaxEvents}

IsSpawnKey(e) == e \in {"K_UP", "K_DOWN", "K_LEFT", "K_RIGHT"}

\* the road a KEYDOWN spawns an emergency vehicle on
KeyRoad(e) ==
    IF e = "K_UP" THEN "North"
    ELSE IF e = "K_DOWN" THEN "South"
    ELSE IF e = "K_LEFT" THEN "West"
    ELSE "East"

\* `for event in pygame.event.get()` from event i on: the queues and the next
\* object identity after the loop
RECURSIVE HandleEventList(_, _, _, _)
HandleEventList(queues, events, i, id) ==
    IF i > Len(events) THEN [queues |-> queues, next_id |-> id]
    ELSE IF IsSpawnKey(events[i])
         THEN HandleEventList(spawn_vehicle(queues, KeyRoad(events[i]), TRUE, id),
                              events, i + 1, id + 1)
         ELSE HandleEventList(queues, events, i + 1, id)

\* the event loop: QUIT clears `running`, an arrow key spawns an emergency
\* vehicle, with no look at total_vehicle_count()
HandleEvents ==
    /\ pc = "events"
    /\ \E events \in EventLists :
           LET res == HandleEventList(traffic_queues, events, 1, next_id) IN
           /\ res.next_id <= MaxSpawned + 1
           /\ traffic_queues' = res.queues
           /\ next_id' = res.next_id
           /\ running' = ~(\E k \in 1..Len(events) : events[k] = "QUIT")
    /\ EndStage("events", running)
    /\ UNCHANGED spawning
    /\ UNCHANGED <<current_green_road, since_switch, since_spawn, update_green, move_log,
                   removed_ids, switched>>

\* pygame.display.flip(), clock.tick(30), during which dt seconds pass, and
\* the `while running` test (after a QUIT no reading of the clock follows, so
\* the advance is left out)
ClockTick ==
    /\ pc = "tick"
    /\ IF running
       THEN \E dt \in 0..SwitchDue :
                /\ since_switch' = Min(since_switch + dt, SwitchDue)
                /\ since_spawn' = Min(since_spawn + dt, SpawnDue)
       ELSE UNCHANGED <<since_switch, since_spawn>>
    /\ EndStage("tick", running)
    /\ UNCHANGED spawning
    /\ UNCHANGED <<traffic_queues, current_green_road, running, next_id, update_green,
                   move_log, removed_ids, switched>>

Next == UpdateVehicles \/ PhaseCheck \/ TimedSpawn \/ HandleEvents \/ ClockTick

Spec == Init /\ [][Next]_vars

----------------------------------------------------------------------------
(* spawn_vehicle called with a road that is none of the four *)

\* road identifiers that are no key of traffic_queues
InvalidRoads == {"Northeast", "north", ""}

\* variant of SpawnRaises for a dict that takes any key (C14)
SpawnRaisesNever(queues, road) == FALSE

\* does spawn_vehicle(road, ...) raise: no branch of the if/elif chain binds x
\* and y, and the lookup traffic_queues[road], evaluated first, is a KeyError
SpawnRaises(queues, road) == road \notin DOMAIN queues

\* a call spawn_vehicle(road, is_emergency) from the loop body, at the place
\* of the key handlers; nothing in main() catches the exception, so the loop
\* ends with it
SpawnCall(road, is_emergency) ==
    /\ pc = "events"
    /\ IF SpawnRaises(traffic_queues, road)
       THEN /\ pc' = "raised"
            /\ UNCHANGED <<traffic_queues, next_id, stages_done>>
       ELSE /\ next_id <= MaxSpawned
            /\ traffic_queues' = spawn_vehicle(traffic_queues, road, is_emergency, next_id)
            /\ next_id' = next_id + 1
            /\ EndStage("events", running)
    /\ UNCHANGED spawning
    /\ UNCHANGED <<current_green_road, since_switch, since_spawn, running, update_green,
                   move_log, removed_ids, switched>>

SpawnInvalidRoad == \E road \in InvalidRoads, is_emergency \in BOOLEAN : SpawnCall(road, is_emergency)

NextAnyRoad == Next \/ SpawnInvalidRoad

\* the loop with spawn requests for arbitrary road identifiers
SpecAnyRoad == Init /\ [][NextAnyRoad]_vars

----------------------------------------------------------------------------
(* the loop when no arrow key is pressed *)

\* the event loop when pygame.event.get() holds no KEYDOWN of an arrow key
HandleEventsNoKeys == HandleEvents /\ next_id' = next_id

NextTimedOnly ==
    UpdateVehicles \/ PhaseCheck \/ TimedSpawn \/ HandleEventsNoKeys \/ ClockTick

\* the executions in which the timed random spawn is the only source of vehicles
SpecTimedOnly == Init /\ [][NextTimedOnly]_vars

----------------------------------------------------------------------------
(* the loop as it runs on: for the properties of infinite executions *)

\* an object identity no queued Vehicle has; identities are reused once the
\* object is gone
FreeId(queues) ==
    CHOOSE i \in 1..(MaxSpawned + 1) :
        /\ i \notin QueueIds(queues)
        /\ \A j \in 1..(i - 1) : j \in QueueIds(queues)

\* the timed random spawn while spawn requests are made (removed_ids is cleared
\* here, as identities return)
LiveTimedSpawn ==
    /\ pc = "spawn"
    /\ IF spawning /\ SpawnAllowed(since_spawn, traffic_queues)
       THEN /\ FreeId(traffic_queues) <= MaxSpawned
            /\ \E road \in RoadSet, is_emergency \in BOOLEAN :
                   traffic_queues' = spawn_vehicle(traffic_queues, road, is_emergency,
                                                   FreeId(traffic_queues))
            /\ since_spawn' = 0
       ELSE UNCHANGED <<traffic_queues, since_spawn>>
    /\ update_green' = "None"
    /\ switched' = FALSE
    /\ EndStage("spawn", running)
    /\ removed_ids' = {}
    /\ UNCHANGED <<current_green_road, since_switch, running, next_id, move_log,
                   spawning>>

\* `for event in pygame.event.get()` from event i on, with reused identities
RECURSIVE LiveHandleEventList(_, _, _)
LiveHandleEventList(queues, events, i) ==
    IF i > Len(events) THEN queues
    ELSE IF IsSpawnKey(events[i])
         THEN LiveHandleEventList(spawn_vehicle(queues, KeyRoad(events[i]), TRUE, FreeId(queues)),
                                  events, i + 1)
         ELSE LiveHandleEventList(queues, events, i + 1)

\* the event loop; arrow keys are pressed only while spawn requests are made
\* and fewer than LiveMaxQueued vehicles are queued
LiveHandleEvents ==
    /\ pc = "events"
    /\ \E events \in EventLists :
           LET res == LiveHandleEventList(traffic_queues, events, 1) IN
           /\ spawning \/ res = traffic_queues
           /\ total_vehicle_count(res) <= LiveMaxQueued
           /\ traffic_queues' = res
           /\ running' = ~(\E k \in 1..Len(events) : events[k] = "QUIT")
    /\ EndStage("events", running)
    /\ UNCHANGED <<current_green_road, since_switch, since_spawn, next_id, update_green,
                   move_log, removed_ids, switched, spawning>>

\* the last spawn request has been made
StopSpawning ==
    /\ pc = "update"
    /\ spawning
    /\ spawning' = FALSE
    /\ UNCHANGED <<traffic_queues, current_green_road, since_switch, since_spawn, running,
                   pc, next_id, stages_done, update_green, move_log, removed_ids, switched>>

NextLive ==
    UpdateVehicles \/ PhaseCheck \/ LiveTimedSpawn \/ LiveHandleEvents \/ ClockTick
        \/ StopSpawning

\* an iteration at whose end GREEN_LIGHT_DURATION has passed since the switch
PhaseComesDue == ClockTick /\ since_switch' = SwitchDue

\* no step of the loop body blocks: control never stays at one step for ever
\* (each step is enabled whenever control is at it)
LoopRuns == \A s \in {"update", "phase", "spawn", "events", "tick"} : []<>(pc # s)

\* the loop keeps iterating and time.time() grows without bound
\* (clock.tick(30) makes every iteration take time), so that iterations at
\* whose end the phase check is due keep occurring
SpecLive == Init /\ [][NextLive]_vars /\ LoopRuns /\ SF_vars(PhaseComesDue)

----------------------------------------------------------------------------
(* Vocabulary of the properties *)

\* the vehicle records held by the four queues
Queued(queues) ==
    UNION {{queues[r][k] : k \in 1..Len(queues[r])} : r \in RoadSet}

\* the records the move() calls of the latest update step returned
Logged(log) == {log[k] : k \in 1..Len(log)}

AnyEmergency(queues) == \E r \in RoadSet : HasEmergency(queues[r])

\* w is v advanced by d along its road's direction of travel, the other
\* coordinate unchanged
AdvancedBy(v, w, d) ==
    /\ v.road = "North" => w.x = v.x /\ w.y = v.y + d
    /\ v.road = "South" => w.x = v.x /\ w.y = v.y - d
    /\ v.road = "East" => w.x = v.x - d /\ w.y = v.y
    /\ v.road = "West" => w.x = v.x + d /\ w.y = v.y

\* v is d from its road's entry coordinate, along the direction of travel
TravelledBy(v, d) ==
    AdvancedBy([road |-> v.road, x |-> EntryPoint(v.road).x, y |-> EntryPoint(v.road).y], v, d)

\* past the crossing threshold of its road
PastThreshold(v) ==
    \/ v.road = "North" /\ v.y > HEIGHT \div 2
    \/ v.road = "South" /\ v.y < HEIGHT \div 2
    \/ v.road = "East" /\ v.x < WIDTH \div 2
    \/ v.road = "West" /\ v.x > WIDTH \div 2

----------------------------------------------------------------------------
(* C1 .. C10 *)

\* C1: when the selection runs with an emergency vehicle in some queue, the
\* road it returns holds an emergency vehicle and no road before it in the
\* order North, South, East, West does, whatever the queue lengths.
\* (`switched` holds exactly in the state a due phase check leaves: the
\* queues are the ones the selection read, current_green_road its result.)
C1_EmergencyOverride ==
    (switched /\ AnyEmergency(traffic_queues)) =>
        /\ current_green_road \in RoadSet
        /\ HasEmergency(traffic_queues[current_green_road])
        /\ \A s \in RoadSet :
               RoadIndex(s) < RoadIndex(current_green_road) => ~HasEmergency(traffic_queues[s])

\* East, with one emergency vehicle, selected over a longer ordinary South
C1_Witness ==
    /\ switched
    /\ current_green_road = "East"
    /\ HasEmergency(traffic_queues["East"])
    /\ ~HasEmergency(traffic_queues["South"])
    /\ Len(traffic_queues["South"]) > Len(traffic_queues["East"])

\* C2: when the selection runs with no emergency vehicle queued, the road it
\* returns has the greatest queue length of the four, and is the first road
\* in the order North, South, East, West with that length.
C2_CongestionPolicy ==
    (switched /\ ~AnyEmergency(traffic_queues)) =>
        /\ current_green_road \in RoadSet
        /\ \A r \in RoadSet :
               /\ Len(traffic_queues[r]) <= Len(traffic_queues[current_green_road])
               /\ Len(traffic_queues[r]) = Len(traffic_queues[current_green_road])
                      => RoadIndex(current_green_road) <= RoadIndex(r)

\* two non-empty roads tied for the maximum, the earlier one selected
C2_Witness ==
    /\ switched
    /\ ~AnyEmergency(traffic_queues)
    /\ \E r \in RoadSet :
           /\ r # current_green_road
           /\ Len(traffic_queues[r]) >= 1
           /\ Len(traffic_queues[r]) = Len(traffic_queues[current_green_road])

\* C3, per tick: in the update step a non-emergency vehicle on a road other
\* than the green road passed to the step keeps its position, and one on the
\* green road advances by exactly 2 along its road's direction, the other
\* coordinate unchanged; if it stays queued it is queued at that position.
\* No other step of the iteration moves it.
C3_Step ==
    \A v \in Queued(traffic_queues) :
        ~v.is_emergency =>
            /\ pc = "update" => \E w \in Logged(move_log') : w.id = v.id
            /\ \A w \in Logged(move_log') \cup Queued(traffic_queues') :
                   w.id = v.id =>
                       AdvancedBy(v, w, IF pc = "update" /\ v.road = current_green_road
                                        THEN 2 ELSE 0)

\* C3, the sum: a queued non-emergency vehicle is exactly 2 * k from its entry
\* point, k the number of update steps it spent on the green road.
C3_Distance ==
    \A v \in Queued(traffic_queues) :
        ~v.is_emergency => TravelledBy(v, 2 * v.green_ticks)

\* C3: the movement gate for ordinary vehicles
C3_MovementGate == [][C3_Step]_vars /\ []C3_Distance

\* an update step that held one ordinary vehicle at a red light and moved
\* another, on the green road, for the second time
C3_Witness ==
    /\ pc = "phase"
    /\ \E a, b \in Logged(move_log) :
           /\ ~a.is_emergency /\ a.road # update_green /\ TravelledBy(a, 0)
           /\ ~b.is_emergency /\ b.road = update_green /\ b.green_ticks = 2
           /\ TravelledBy(b, 4)

\* C4: in every update step an emergency vehicle that is in a queue advances
\* by exactly 4 along its road's direction, on the green road or not (and by
\* nothing in the other steps of the iteration).
C4_Step ==
    \A v \in Queued(traffic_queues) :
        v.is_emergency =>
            /\ pc = "update" => \E w \in Logged(move_log') : w.id = v.id
            /\ \A w \in Logged(move_log') \cup Queued(traffic_queues') :
                   w.id = v.id => AdvancedBy(v, w, IF pc = "update" THEN 4 ELSE 0)

C4_EmergencyAlwaysMoves == [][C4_Step]_vars

\* one step moved an emergency vehicle on the green road and one on a red road
C4_Witness ==
    /\ pc = "phase"
    /\ \E a, b \in Logged(move_log) :
           /\ a.is_emergency /\ a.road # update_green /\ TravelledBy(a, 4)
           /\ b.is_emergency /\ b.road = update_green

\* C5, state part: no queue holds a vehicle past its road's threshold, and no
\* removed vehicle is in a queue.
C5_State ==
    /\ \A v \in Queued(traffic_queues) : ~PastThreshold(v)
    /\ removed_ids \cap QueueIds(traffic_queues) = {}

\* C5, step part: a vehicle leaves the queues only in the update step, and in
\* that step it leaves exactly when the position its move() call gave it is
\* past the threshold.
C5_Step ==
    \A v \in Queued(traffic_queues) :
        /\ v.id \notin QueueIds(traffic_queues') => pc = "update"
        /\ pc = "update" =>
               \A w \in Logged(move_log') :
                   w.id = v.id => (v.id \notin QueueIds(traffic_queues') <=> PastThreshold(w))

\* C5: removal in the tick of crossing, never earlier, and for good
C5_Removal == []C5_State /\ [][C5_Step]_vars

\* a step removed a vehicle that crossed and kept one of the same road
C5_Witness ==
    /\ pc = "phase"
    /\ \E a, b \in Logged(move_log) :
           /\ a.road = b.road
           /\ PastThreshold(a) /\ a.id \in removed_ids /\ a.id \notin QueueIds(traffic_queues)
           /\ ~PastThreshold(b) /\ b \in Queued(traffic_queues)

\* C6, as claimed: the total vehicle count never exceeds MAX_VEHICLES.
C6_NeverAboveMax == total_vehicle_count(traffic_queues) <= MAX_VEHICLES

C8_Step ==
    /\ (pc = "phase" /\ since_switch >= GREEN_LIGHT_DURATION) =>
           /\ current_green_road' = update_traffic_lights(traffic_queues)
           /\ since_switch' = 0
    /\ (pc = "phase" /\ since_switch < GREEN_LIGHT_DURATION) =>
           /\ current_green_road' = current_green_road
           /\ since_switch' = since_switch
    /\ pc # "phase" => current_green_road' = current_green_road
    /\ current_green_road' # current_green_road => since_switch >= GREEN_LIGHT_DURATION

C8_TimerGatedSwitch == [][C8_Step]_vars

\* an early phase check kept a green road without emergency vehicles while
\* an emergency vehicle waited on another road
C8_Witness ==
    /\ pc = "spawn"
    /\ ~switched
    /\ since_switch \in 1..(GREEN_LIGHT_DURATION - 1)
    /\ AnyEmergency(traffic_queues)
    /\ ~HasEmergency(traffic_queues[current_green_road])

\* C9: the green road is always one of the four roads.
C9_OneGreenRoad == current_green_road \in RoadSet

\* a selection over four empty queues
C9_Witness ==
    /\ switched
    /\ total_vehicle_count(traffic_queues) = 0
    /\ current_green_road = "North"

\* C10: in the update step every vehicle queued at its start gets exactly one
\* move() call, and the step keeps, in their order, exactly the vehicles whose
\* own new position is not past the threshold.
C10_Step ==
    pc = "update" =>
        /\ \A v \in Queued(traffic_queues) :
               Cardinality({k \in 1..Len(move_log') : move_log'[k].id = v.id}) = 1
        /\ Len(move_log') = total_vehicle_count(traffic_queues)
        /\ \A r \in RoadSet :
               LET before == traffic_queues[r]
                   after == traffic_queues'[r]
                   kept == {k \in 1..Len(before) :
                               \E w \in Logged(move_log') :
                                   w.id = before[k].id /\ ~PastThreshold(w)}
               IN  /\ Len(after) = Cardinality(kept)
                   /\ \A j \in 1..Len(after) :
                          \E k \in kept :
                              /\ after[j].id = before[k].id
                              /\ Cardinality({h \in kept : h < k}) = j - 1

C10_IterationSafety == [][C10_Step]_vars

\* a step removed a vehicle and then processed, and kept, the vehicle that
\* followed it in the same queue
C10_Witness ==
    /\ pc = "phase"
    /\ \E j \in 1..Len(move_log) :
           /\ j < Len(move_log)
           /\ move_log[j].road = move_log[j + 1].road
           /\ PastThreshold(move_log[j])
           /\ ~PastThreshold(move_log[j + 1])
           /\ move_log[j + 1] \in Queued(traffic_queues)

----------------------------------------------------------------------------
(* C11 .. C19 *)

\* q is p with further elements appended
IsPrefix(p, q) == Len(p) <= Len(q) /\ SubSeq(q, 1, Len(p)) = p

\* the elements of q after its first n
Appended(q, n) == {q[k] : k \in (n + 1)..Len(q)}

\* distance from the entry coordinate of a road to its crossing threshold
CrossingDistance(road) ==
    IF road = "North" THEN HEIGHT \div 2
    ELSE IF road = "South" THEN HEIGHT - HEIGHT \div 2
    ELSE IF road = "East" THEN WIDTH - WIDTH \div 2
    ELSE WIDTH \div 2

\* distance of v from the entry coordinate of its road
Travelled(v) ==
    IF v.road = "North" THEN v.y
    ELSE IF v.road = "South" THEN HEIGHT - v.y
    ELSE IF v.road = "East" THEN WIDTH - v.x
    ELSE v.x

C11_Call ==
    \A road \in RoadSet, e \in BOOLEAN :
        LET q == spawn_vehicle(traffic_queues, road, e, next_id)
            old == traffic_queues[road]
        IN  /\ DOMAIN q = RoadSet
            /\ Len(q[road]) = Len(old) + 1
            /\ SubSeq(q[road], 1, Len(old)) = old
            /\ LET v == q[road][Len(old) + 1] IN
                   /\ v.id = next_id
                   /\ v.road = road
                   /\ v.is_emergency = e
                   /\ v.x = EntryPoint(road).x /\ v.y = EntryPoint(road).y
            /\ \A r \in RoadSet \ {road} : q[r] = traffic_queues[r]

C11_Step ==
    pc \in {"spawn", "events"} =>
        /\ current_green_road' = current_green_road
        /\ total_vehicle_count(traffic_queues') - total_vehicle_count(traffic_queues)
               = next_id' - next_id
        /\ pc = "spawn" => next_id' - next_id <= 1
        /\ \A r \in RoadSet :
               /\ IsPrefix(traffic_queues[r], traffic_queues'[r])
               /\ \A v \in Appended(traffic_queues'[r], Len(traffic_queues[r])) :
                      /\ v.road = r
                      /\ TravelledBy(v, 0)
                      /\ v.id \in next_id..(next_id' - 1)
                      /\ pc = "events" => v.is_emergency

\* C11: spawn_vehicle(road, is_emergency), for each of the four roads, appends
\* exactly one new vehicle at the tail of that road's queue, at the road's
\* entry coordinate and with the given flag; the vehicles already in that
\* queue keep their order and positions, and the other three queues and the
\* green road are unchanged.
C11_SpawnFrame == []C11_Call /\ [][C11_Step]_vars

\* an emergency vehicle was appended behind a vehicle that is already under way
C11_Witness ==
    /\ pc = "tick"
    /\ \E r \in RoadSet :
           LET q == traffic_queues[r] IN
           /\ Len(q) >= 2
           /\ ~TravelledBy(q[1], 0)
           /\ TravelledBy(q[Len(q)], 0) /\ q[Len(q)].is_emergency

C12_State ==
    \A r \in RoadSet : \A k \in 1..Len(traffic_queues[r]) :
        /\ traffic_queues[r][k].road = r
        /\ \A s \in RoadSet : \A j \in 1..Len(traffic_queues[s]) :
               traffic_queues[s][j].id = traffic_queues[r][k].id => s = r /\ j = k

C12_Step ==
    \A v \in Queued(traffic_queues) :
        \A w \in Queued(traffic_queues') \cup Logged(move_log') :
            w.id = v.id => w.road = v.road /\ w.is_emergency = v.is_emergency

\* C12: every vehicle in the queue of road r has road attribute r, no vehicle
\* is in two queues or twice in one queue, and a queued vehicle keeps its road
\* and its emergency flag in every step.
C12_QueueMembership == []C12_State /\ [][C12_Step]_vars

\* three vehicles on two roads, the first of them under way
C12_Witness ==
    \E r \in RoadSet, s \in RoadSet :
        /\ r # s
        /\ Len(traffic_queues[r]) >= 2
        /\ Len(traffic_queues[s]) >= 1
        /\ ~TravelledBy(traffic_queues[r][1], 0)

C13_State ==
    total_vehicle_count(traffic_queues) = Cardinality(QueueIds(traffic_queues))

C13_Step ==
    LET n == total_vehicle_count(traffic_queues)
        m == total_vehicle_count(traffic_queues')
    IN  /\ pc = "spawn" /\ next_id' # next_id => m = n + 1
        /\ pc = "spawn" /\ next_id' = next_id => m = n
        /\ pc = "events" => m = n + (next_id' - next_id)
        /\ pc = "update" => m = n - Cardinality(removed_ids' \ removed_ids)
        /\ pc \in {"phase", "tick"} => m = n

\* C13: total_vehicle_count() is the number of vehicles in the four queues in
\* every reachable state; a spawn raises it by exactly one and an update step
\* lowers it by exactly the number of vehicles it removed.
C13_CountConsistency == []C13_State /\ [][C13_Step]_vars

\* an update step removed a vehicle and left another queued
C13_Witness ==
    /\ pc = "phase"
    /\ total_vehicle_count(traffic_queues) >= 1
    /\ \E w \in Logged(move_log) : w.id \in removed_ids

C14_Step ==
    \A road \in InvalidRoads, e \in BOOLEAN :
        SpawnCall(road, e) =>
            /\ pc' = "raised"
            /\ traffic_queues' = traffic_queues
            /\ current_green_road' = current_green_road

C14_State ==
    /\ DOMAIN traffic_queues = RoadSet
    /\ \A v \in Queued(traffic_queues) : v.road \in RoadSet

\* C14: a spawn request for a road identifier that is none of North, South,
\* East, West ends in an error and leaves the four queues, every vehicle and
\* the green road as they were; no vehicle with an invalid road is ever queued.
C14_InvalidRoadRejected == [][C14_Step]_vars /\ []C14_State

\* a spawn request for an unknown road raised while vehicles were queued
C14_Witness ==
    /\ pc = "raised"
    /\ total_vehicle_count(traffic_queues) >= 2
    /\ \E v \in Queued(traffic_queues) : ~TravelledBy(v, 0)

\* C15: an emergency vehicle is removed within floor(D / 4) + 1 update steps
\* of its spawn, D being the distance from the entry coordinate of its road to
\* the crossing threshold: a queued emergency vehicle has been through at most
\* floor(D / 4) update steps, and the update step after that removes it,
\* whatever the green road.
C15_BoundedResponse ==
    /\ \A v \in Queued(traffic_queues) :
           v.is_emergency => v.ticks <= CrossingDistance(v.road) \div 4
    /\ \A w \in Logged(move_log) :
           w.is_emergency =>
               /\ w.ticks <= CrossingDistance(w.road) \div 4 + 1
               /\ w.ticks = CrossingDistance(w.road) \div 4 + 1 => w.id \in removed_ids

\* an emergency vehicle on a red road was removed by its last allowed update
C15_Witness ==
    /\ pc = "phase"
    /\ \E w \in Logged(move_log) :
           /\ w.is_emergency
           /\ w.road # update_green
           /\ w.ticks = CrossingDistance(w.road) \div 4 + 1
           /\ w.id \in removed_ids
           /\ \E v \in Queued(traffic_queues) : v.id > w.id

C18_State ==
    \A r \in RoadSet : \A j, k \in 1..Len(traffic_queues[r]) :
        (j < k /\ ~traffic_queues[r][j].is_emergency /\ ~traffic_queues[r][k].is_emergency)
            => Travelled(traffic_queues[r][j]) >= Travelled(traffic_queues[r][k])

C18_Step ==
    \A r \in RoadSet : \A j, k \in 1..Len(traffic_queues[r]) :
        (/\ j < k
         /\ traffic_queues[r][k].id \notin QueueIds(traffic_queues')
         /\ traffic_queues[r][j].id \in QueueIds(traffic_queues'))
            => traffic_queues[r][k].is_emergency

\* C18: of two ordinary vehicles in one queue the earlier one has travelled at
\* least as far from the entry coordinate as the later one, and a vehicle that
\* is removed while a vehicle ahead of it in the queue stays is an emergency
\* vehicle.
C18_ArrivalOrder == []C18_State /\ [][C18_Step]_vars

\* two ordinary vehicles of one road, both under way, the earlier one ahead
C18_Witness ==
    \E r \in RoadSet :
        LET q == traffic_queues[r] IN
        /\ Len(q) >= 2
        /\ ~q[1].is_emergency /\ ~q[2].is_emergency
        /\ Travelled(q[1]) > Travelled(q[2])
        /\ Travelled(q[2]) > 0

C19_Step ==
    LET n == total_vehicle_count(traffic_queues)
        m == total_vehicle_count(traffic_queues')
    IN  /\ pc # "spawn" => m <= n
        /\ pc = "spawn" =>
               /\ m <= n + 1
               /\ m = n + 1 =>
                      /\ since_spawn >= SpawnDue
                      /\ n < MAX_VEHICLES
                      /\ \E i \in 1..Len(stages_done) : stages_done[i] = "update"

\* C19: the timed random spawn adds at most one vehicle per tick, and only in
\* a tick in which the spawn interval has elapsed and the total count, read
\* after the removals of that tick, is strictly below MAX_VEHICLES; so when no
\* arrow key is pressed the total count never exceeds MAX_VEHICLES.
C19_ThrottledSpawn ==
    [][C19_Step]_vars /\ [](total_vehicle_count(traffic_queues) <= MAX_VEHICLES)

\* the timed spawn has just filled the queues up to MAX_VEHICLES
C19_Witness ==
    /\ pc = "events"
    /\ total_vehicle_count(traffic_queues) = MAX_VEHICLES
    /\ since_spawn = 0
    /\ \E v \in Queued(traffic_queues) : v.id = next_id - 1 /\ TravelledBy(v, 0)
    /\ removed_ids # {}

\* the vehicle with identity i is queued and is an ordinary one
OrdinaryQueued(i) ==
    \E v \in Queued(traffic_queues) : v.id = i /\ ~v.is_emergency

AllEmpty == \A r \in RoadSet : traffic_queues[r] = <<>>

\* C16 as stated: every ordinary vehicle that is queued is removed in the end,
\* while the loop runs and phase checks keep coming due, whatever is spawned
\* later.
C16_NoStarvation ==
    \A i \in 1..MaxSpawned :
        [](OrdinaryQueued(i) => <>(~OrdinaryQueued(i) \/ ~running))

\* C16, amended: every ordinary vehicle that is queued is removed in the end,
\* while the loop runs and phase checks keep coming due, once no further
\* vehicle is spawned.
C16_RemovedOnceSpawningEnds ==
    \A i \in 1..MaxSpawned :
        []((OrdinaryQueued(i) /\ ~spawning) => <>(~OrdinaryQueued(i) \/ ~running))

\* after the last spawn an ordinary vehicle left while another vehicle waits
C16_Witness ==
    /\ ~spawning
    /\ pc = "phase"
    /\ \E w \in Logged(move_log) : ~w.is_emergency /\ w.id \in removed_ids
    /\ \E v \in Queued(traffic_queues) : ~v.is_emergency /\ v.road # update_green

\* a due phase check leaves a road with a non-empty queue green whenever a
\* queue is non-empty
C17_Selects ==
    (switched /\ ~AllEmpty) => traffic_queues[current_green_road] # <<>>

\* C17: once no further vehicle is spawned, and while the loop runs and phase
\* checks keep coming due, the four queues become empty in the end; each due
\* phase check selects a road whose queue is non-empty if any queue is.
C17_Draining == []C17_Selects /\ [](~spawning => <>(AllEmpty \/ ~running))

\* after the last spawn the last queued vehicle has left
C17_Witness ==
    /\ ~spawning
    /\ pc = "phase"
    /\ AllEmpty
    /\ \E w \in Logged(move_log) : w.id \in removed_ids
====
